---- MODULE Spec2Model ----
(***************************************************************************)
(* editors/code/src/net.ts: fetchRelease, download and downloadFile.       *)
(*                                                                         *)
(* The server directory is a function from entry names to file contents.   *)
(* Names are sequences of one-character strings, contents are sequences of *)
(* bytes.  download() is called by the extension hosts in Procs, which     *)
(* share the server directory; the pc of a host is the await its call is   *)
(* suspended at.  A host can be terminated at any await (killed): its call *)
(* keeps its pc and never moves again, until the host makes a new call.    *)
(* Under Spec the calls are made one after the other and the hosts take    *)
(* turns, so that the record of the call before the latest one is still    *)
(* there to compare with.                                                  *)
(* ConcSpec lets the calls of the two hosts overlap, ProgressSpec follows   *)
(* one download of a longer body up to the return of downloadFile, and     *)
(* ScenarioSpec streams one payload of 200 bytes.                          *)
(***************************************************************************)
EXTENDS Integers, Sequences, FiniteSets, TLC

\* ------------------------------------------------------------------ bounds
\* Number of download() calls made in one behaviour.
MaxInstalls == 2
\* Largest number of wire bytes one "data" event of the response body carries.
MaxChunk == 2

\* ------------------------------------------------------- program constants
\* crypto.randomBytes(5)
RandBytes == 5

Procs == { 1, 2 }

\* ------------------------------------------------------------------ inputs
\* opts.dest, as the base part of its fsPath (the directory is fixed): a name
\* without extension, one with an extension, and one whose extension repeats
\* the name and the stale mark ("a.a-stale-").
DestNames == { <<"r", "a">>, <<"r", "a", ".", "x">>,
               <<"a", ".", "a", "-", "s", "t", "a", "l", "e", "-">> }
\* Outcomes of crypto.randomBytes that are explored: RandBytes equal bytes.
ByteVals == { 10, 177 }
\* The artifacts a call can be asked to download: the body (wire bytes) at
\* opts.url and opts.gunzip.  A gzipped body is in the format Gunzip below
\* decodes: (count, byte) pairs.
Sources == { [gunzip |-> FALSE, wire |-> <<2, 5>>],
             [gunzip |-> TRUE, wire |-> <<2, 7>>] }
\* The binary at opts.dest before the first install, when there is one.
OldBinary == <<9, 9, 9>>
\* HTTP status codes a response can carry.
Statuses == { 200, 300, 404 }
\* content-length header values: null stands for an absent header.
NullHeader == [present |-> FALSE, value |-> <<>>]
Header(v) == [present |-> TRUE, value |-> v]

\* ------------------------------------------------------------ pure helpers
Min(a, b) == IF a < b THEN a ELSE b

RECURSIVE Concat(_)
Concat(ss) == IF ss = <<>> THEN <<>> ELSE Head(ss) \o Concat(Tail(ss))

\* String.prototype.includes: sub occurs in s as a contiguous substring.
Includes(s, sub) ==
    \E i \in 0..(Len(s) - Len(sub)) : SubSeq(s, i + 1, i + Len(sub)) = sub

HexDigits == <<"0", "1", "2", "3", "4", "5", "6", "7",
               "8", "9", "a", "b", "c", "d", "e", "f">>

\* Buffer.toString("hex"): two lower-case hex digits per byte.
ToHex(bytes) ==
    Concat([i \in 1..Len(bytes) |->
              <<HexDigits[(bytes[i] \div 16) + 1], HexDigits[(bytes[i] % 16) + 1]>>])

\* crypto.randomBytes(n), restricted to the explored outcomes.
RandomBytes(n) == { [i \in 1..n |-> b] : b \in ByteVals }

\* path.parse(base).ext: from the last "." to the end, empty when there is no
\* "." or when the only "." is the first character.
LastDot(base) ==
    IF \E i \in 1..Len(base) : base[i] = "."
    THEN CHOOSE i \in 1..Len(base) :
            /\ base[i] = "."
            /\ \A j \in (i + 1)..Len(base) : base[j] # "."
    ELSE 0

ParseExt(base) ==
    IF LastDot(base) <= 1 THEN <<>> ELSE SubSeq(base, LastDot(base), Len(base))

ParseName(base) ==
    IF LastDot(base) <= 1 THEN base ELSE SubSeq(base, 1, LastDot(base) - 1)

StaleMark == <<"-", "s", "t", "a", "l", "e", "-">>

\* `${rawDest.name}-stale-${randomHex}${rawDest.ext}`
OldServerPath(base, randomHex) ==
    ParseName(base) \o StaleMark \o randomHex \o ParseExt(base)

\* Mutant: the artifact is downloaded straight onto opts.dest.
TempFilePath_OntoDest(base, randomHex) == base

\* `${rawDest.name}${randomHex}`
TempFilePath(base, randomHex) == ParseName(base) \o randomHex

\* Mutant: every entry that contains the name of the destination is stale.
IsStaleEntry_Name(entry, base) == Includes(entry, ParseName(base))

\* entry.includes(`${rawDest.name}-stale-`)
IsStaleEntry(entry, base) == Includes(entry, ParseName(base) \o StaleMark)

\* response.ok of node-fetch: status in the range 200-299.
Ok(status) == status >= 200 /\ status < 300

\* Number(x) of a header value.  Number(null) is 0, Number("") is 0, a run of
\* decimal digits with an optional sign is its value, anything else is NaN.
DigitChars == <<"0", "1", "2", "3", "4", "5", "6", "7", "8", "9">>
IsDigit(c) == \E d \in 1..10 : DigitChars[d] = c
DigitVal(c) == (CHOOSE d \in 1..10 : DigitChars[d] = c) - 1

RECURSIVE DigitsValue(_)
DigitsValue(s) ==
    IF s = <<>> THEN 0
    ELSE 10 * DigitsValue(SubSeq(s, 1, Len(s) - 1)) + DigitVal(s[Len(s)])

AllDigits(s) == s # <<>> /\ \A i \in 1..Len(s) : IsDigit(s[i])

NaN == [nan |-> TRUE, val |-> 0]
Num(v) == [nan |-> FALSE, val |-> v]

Number(h) ==
    IF ~h.present THEN Num(0)
    ELSE IF h.value = <<>> THEN Num(0)
    ELSE IF AllDigits(h.value) THEN Num(DigitsValue(h.value))
    ELSE IF h.value[1] = "-" /\ AllDigits(Tail(h.value))
         THEN Num(0 - DigitsValue(Tail(h.value)))
    ELSE IF h.value[1] = "+" /\ AllDigits(Tail(h.value))
         THEN Num(DigitsValue(Tail(h.value)))
    ELSE NaN

\* The decimal digits a server writes for a body of n bytes.
RECURSIVE Decimal(_)
Decimal(n) ==
    IF n < 10 THEN <<DigitChars[n + 1]>>
    ELSE Decimal(n \div 10) \o <<DigitChars[(n % 10) + 1]>>

\* content-length headers a response with the given body can carry: the
\* body's length, no header, a header that is no number, a negative number.
ContentLengths(wire) ==
    { Header(Decimal(Len(wire))), NullHeader, Header(<<"a", "b">>), Header(<<"-", "1">>) }

\* What zlib.createGunzip() has written after consuming the wire bytes w: the
\* expansion of every complete (count, byte) pair of w.
RECURSIVE Gunzip(_)
Gunzip(w) ==
    IF Len(w) < 2 THEN <<>>
    ELSE [i \in 1..w[1] |-> w[2]] \o Gunzip(SubSeq(w, 3, Len(w)))

\* Bytes that have reached destFileStream once `read` wire bytes were read.
Written(wire, read, gunzip) ==
    IF gunzip THEN Gunzip(SubSeq(wire, 1, read)) ELSE SubSeq(wire, 1, read)

\* The file a complete download of `wire` produces.
Artifact(wire, gunzip) == Written(wire, Len(wire), gunzip)

\* Math.round((readBytes / totalBytes) * 100).  Math.round rounds halves up;
\* a division by zero gives Infinity for readBytes > 0.
Infinity == [inf |-> TRUE, val |-> 0]
Finite(v) == [inf |-> FALSE, val |-> v]

Percentage(readBytes, totalBytes) ==
    IF totalBytes = 0 THEN Infinity
    ELSE IF totalBytes > 0
         THEN Finite((200 * readBytes + totalBytes) \div (2 * totalBytes))
         ELSE Finite((0 - 200 * readBytes - totalBytes) \div (0 - 2 * totalBytes))

\* Mutant: the report carries the absolute percentage as its increment.
Increment_Absolute(new, last) == new

\* newPercentage - lastPercentage
Increment(new, last) ==
    IF new.inf THEN Infinity ELSE Finite(new.val - last.val)

\* ------------------------------------------------- the directory as a value
Exists(d, n) == n \in DOMAIN d

\* vscode.workspace.fs.rename(from, to, { overwrite: true }), when it succeeds.
Rename(d, from, to) ==
    [n \in (DOMAIN d \ {from}) \cup {to} |-> IF n = to THEN d[from] ELSE d[n]]

\* vscode.workspace.fs.delete(uri), when it succeeds.
Delete(d, n) == [m \in DOMAIN d \ {n} |-> d[m]]

\* The file at n holds exactly the bytes c.
WriteFile(d, n, c) == [m \in DOMAIN d \cup {n} |-> IF m = n THEN c ELSE d[m]]

EmptyDir == [n \in {} |-> <<>>]

\* ------------------------------------------------------------------- state
VARIABLES
    relPc,          \* fetchRelease: "idle", "fetch", "body", "returned", "failed"
    relRes,         \* the status of the response fetchRelease received
    relErr,         \* the Error fetchRelease threw
    dest,           \* base name of opts.dest
    dir,            \* the server directory: entry name -> bytes
    pc,             \* per host: the await download() is suspended at
    killed,         \* per host: the process was terminated at pc
    opts,           \* per host: [gunzip, wire], wire being the body at opts.url
    randomHex,      \* per host: the random suffix
    res,            \* per host: the response downloadFile received
    totalBytes,     \* per host: downloadFile's totalBytes
    readBytes,      \* per host: downloadFile's readBytes
    lastPercentage, \* per host: the progress callback's lastPercentage
    reports,        \* per host: the progress.report calls made, in order
    err,            \* per host: the Error download() rejected with
    entries,        \* per host: directory entries the cleanup loop has not visited
    startDir,       \* per host: the directory when download() was called,
                    \*   kept until the call after the next one is made
    fsLog,          \* per host: the vscode.workspace.fs calls made so far, as
                    \*   [call, result] with result "ok", "notfound" or "failed"
    calls,          \* number of download() calls made so far
    seq             \* per host: which call it is, 1 for the first, 0 for none

vars == << relPc, relRes, relErr, dest, dir, pc, killed, opts, randomHex, res, totalBytes,
           readBytes, lastPercentage, reports, err, entries, startDir, fsLog, calls, seq >>

dlVars == << res, totalBytes, readBytes, lastPercentage, reports >>
relVars == << relPc, relRes, relErr >>

NoRes == [status |-> 0, contentLength |-> NullHeader]
NoErr == [kind |-> "none", status |-> 0]
NoOpts == [gunzip |-> FALSE, wire |-> <<>>]

\* The results of the calls of one kind that host p has made.
Results(p, call) == { c.result : c \in { x \in fsLog[p] : x.call = call } }
Logged(p, call, result) == fsLog' = [fsLog EXCEPT ![p] = @ \cup {[call |-> call, result |-> result]}]

\* Mutant: the write stream is opened on opts.dest.
TempOf_Dest(p) == dest

\* The paths of the call of host p.
DestOf == dest
TempOf(p) == TempFilePath(dest, randomHex[p])
OldOf(p) == OldServerPath(dest, randomHex[p])

\* The call of host p is over: it returned, threw, or was terminated.
Over(p) == pc[p] \in {"done", "failed"} \/ killed[p]
Running(p) == pc[p] # "idle" /\ ~Over(p)

\* Host p made the least recent call: the next one is its turn.
Turn(p) == \A q \in Procs : seq[p] < seq[q] \/ (seq[p] = seq[q] /\ p <= q)

\* The directories a first call can find: the destination installed or not.
InitialDirs(base) ==
    { [n \in (IF present THEN {base} ELSE {}) |-> OldBinary] : present \in BOOLEAN }

\* No download() call has been made.
InitInstaller ==
    /\ dest \in DestNames
    /\ dir \in InitialDirs(dest)
    /\ pc = [p \in Procs |-> "idle"]
    /\ killed = [p \in Procs |-> FALSE]
    /\ opts = [p \in Procs |-> NoOpts]
    /\ randomHex = [p \in Procs |-> <<>>]
    /\ res = [p \in Procs |-> NoRes]
    /\ totalBytes = [p \in Procs |-> 0]
    /\ readBytes = [p \in Procs |-> 0]
    /\ lastPercentage = [p \in Procs |-> Finite(0)]
    /\ reports = [p \in Procs |-> <<>>]
    /\ err = [p \in Procs |-> NoErr]
    /\ entries = [p \in Procs |-> {}]
    /\ startDir = [p \in Procs |-> EmptyDir]
    /\ fsLog = [p \in Procs |-> {}]
    /\ calls = 0
    /\ seq = [p \in Procs |-> 0]

Init ==
    /\ relPc = "idle"
    /\ relRes = 0
    /\ relErr = NoErr
    /\ InitInstaller

\* fetchRelease has returned the release.
ReleaseFetched ==
    /\ relPc = "returned"
    /\ relRes \in { status \in Statuses : Ok(status) }
    /\ relErr = NoErr

\* ------------------------------------------------------------ fetchRelease
\* fetchRelease is called: the request is issued and the response awaited.
FetchReleaseCall ==
    /\ relPc = "idle"
    /\ relPc' = "fetch"
    /\ UNCHANGED << relRes, relErr, dest, dir, pc, killed, opts, randomHex, dlVars, err,
                    entries, startDir, fsLog, calls, seq >>

\* The response headers arrive and the body is awaited: response.text() for
\* the log of a response that is not ok, response.json() of one that is.
\* A transport failure rejects.
FetchReleaseResponse ==
    /\ relPc = "fetch"
    /\ \/ \E status \in Statuses :
            /\ relRes' = status
            /\ relPc' = "body"
            /\ UNCHANGED relErr
       \/ /\ relPc' = "failed"
          /\ relErr' = [kind |-> "network", status |-> 0]
          /\ UNCHANGED relRes
    /\ UNCHANGED << dest, dir, pc, killed, opts, randomHex, dlVars, err,
                    entries, startDir, fsLog, calls, seq >>

\* The body has been read, or reading it failed and the await rejects with
\* the body's error.  With the text of a response that is not ok fetchRelease
\* throws an Error naming the status; the json of an ok one is returned.
FetchReleaseBody ==
    /\ relPc = "body"
    /\ \/ IF ~Ok(relRes)
          THEN /\ relPc' = "failed"
               /\ relErr' = [kind |-> "status", status |-> relRes]
          ELSE /\ relPc' = "returned"
               /\ relErr' = NoErr
       \/ /\ relPc' = "failed"
          /\ relErr' = [kind |-> "body", status |-> 0]
    /\ UNCHANGED relRes
    /\ UNCHANGED << dest, dir, pc, killed, opts, randomHex, dlVars, err,
                    entries, startDir, fsLog, calls, seq >>

\* ---------------------------------------------------------------- download
\* download(opts) is entered by host p for one of the given artifacts: the
\* random suffix is drawn, the paths are derived, the progress callback starts
\* at 0 and downloadFile issues its request.
Call(p, sources) ==
    /\ relPc = "returned"
    /\ calls < MaxInstalls
    /\ calls' = calls + 1
    /\ seq' = [seq EXCEPT ![p] = calls + 1]
    /\ killed' = [killed EXCEPT ![p] = FALSE]
    /\ err' = [err EXCEPT ![p] = NoErr]
    /\ res' = [res EXCEPT ![p] = NoRes]
    /\ entries' = [entries EXCEPT ![p] = {}]
    /\ fsLog' = [fsLog EXCEPT ![p] = {}]
    /\ \E b \in RandomBytes(RandBytes), source \in sources :
          /\ randomHex' = [randomHex EXCEPT ![p] = ToHex(b)]
          /\ opts' = [opts EXCEPT ![p] = source]
    /\ lastPercentage' = [lastPercentage EXCEPT ![p] = Finite(0)]
    /\ startDir' = [startDir EXCEPT ![p] = dir]
    /\ pc' = [pc EXCEPT ![p] = "fetch"]
    /\ UNCHANGED << relVars, dest, dir, totalBytes, readBytes, reports >>

\* download(opts) is called for the released asset.  The caller makes its
\* installs one after the other.
Download(p) ==
    /\ \A q \in Procs : ~Running(q)
    /\ Turn(p)
    /\ Call(p, Sources)

\* Mutant: download() catches the error of downloadFile and goes on to swap.
Throw_Swallowed(p, e) ==
    /\ pc' = [pc EXCEPT ![p] = "displace"]
    /\ err' = [err EXCEPT ![p] = e]
    /\ totalBytes' = [totalBytes EXCEPT ![p] = 0]
    /\ readBytes' = [readBytes EXCEPT ![p] = 0]
    /\ lastPercentage' = [lastPercentage EXCEPT ![p] = Finite(0)]
    /\ reports' = [reports EXCEPT ![p] = <<>>]

\* downloadFile throws: download() rejects with the same error.
Throw(p, e) ==
    /\ pc' = [pc EXCEPT ![p] = "failed"]
    /\ err' = [err EXCEPT ![p] = e]
    /\ totalBytes' = [totalBytes EXCEPT ![p] = 0]
    /\ readBytes' = [readBytes EXCEPT ![p] = 0]
    /\ lastPercentage' = [lastPercentage EXCEPT ![p] = Finite(0)]
    /\ reports' = [reports EXCEPT ![p] = <<>>]

\* The response headers of the artifact request arrive (or the transport
\* fails).  Not ok: res.text() is awaited for the log, the content-length
\* header is never read.  content-length is NaN: the assertion throws.
\* Otherwise the data listener is attached, the write stream on the temp
\* path is created and the pipeline starts.
FetchDone(p) ==
    /\ pc[p] = "fetch"
    /\ ~killed[p]
    /\ \/ /\ Throw(p, [kind |-> "network", status |-> 0])
          /\ UNCHANGED << dir, res >>
       \/ \E status \in Statuses :
            /\ ~Ok(status)
            /\ res' = [res EXCEPT ![p] = [status |-> status, contentLength |-> NullHeader]]
            /\ pc' = [pc EXCEPT ![p] = "errbody"]
            /\ UNCHANGED << dir, err, totalBytes, readBytes, lastPercentage, reports >>
       \/ \E status \in Statuses, cl \in ContentLengths(opts[p].wire) :
            /\ Ok(status)
            /\ res' = [res EXCEPT ![p] = [status |-> status, contentLength |-> cl]]
            /\ IF Number(cl).nan
               THEN /\ Throw(p, [kind |-> "assert", status |-> 0])
                    /\ UNCHANGED dir
               ELSE /\ totalBytes' = [totalBytes EXCEPT ![p] = Number(cl).val]
                    /\ readBytes' = [readBytes EXCEPT ![p] = 0]
                    /\ dir' = WriteFile(dir, TempOf(p), <<>>)
                    /\ pc' = [pc EXCEPT ![p] = "stream"]
                    /\ UNCHANGED << err, lastPercentage, reports >>
    /\ UNCHANGED << relVars, dest, killed, opts, randomHex, entries, startDir,
                    fsLog, calls, seq >>

\* The body of a response that was not ok has been read and downloadFile
\* throws an Error naming the status, or reading it failed and the await
\* rejects with the body's error.
ErrorBody(p) ==
    /\ pc[p] = "errbody"
    /\ ~killed[p]
    /\ \/ Throw(p, [kind |-> "status", status |-> res[p].status])
       \/ Throw(p, [kind |-> "body", status |-> 0])
    /\ UNCHANGED << relVars, dest, dir, killed, opts, randomHex, res, entries,
                    startDir, fsLog, calls, seq >>

\* The progress callback of download(): report when the percentage changed.
OnProgress(p, read, total) ==
    LET newPercentage == Percentage(read, total) IN
    IF newPercentage # lastPercentage[p]
    THEN /\ reports' = [reports EXCEPT ![p] = Append(@,
                 [message |-> newPercentage,
                  increment |-> Increment(newPercentage, lastPercentage[p])])]
         /\ lastPercentage' = [lastPercentage EXCEPT ![p] = newPercentage]
    ELSE UNCHANGED << reports, lastPercentage >>

\* A chunk of the body arrives: the data listener counts it and reports
\* progress, the pipeline passes it (through gunzip) into the temp file.
Chunk(p) ==
    /\ pc[p] = "stream"
    /\ ~killed[p]
    /\ readBytes[p] < Len(opts[p].wire)
    /\ \E n \in 1..Min(MaxChunk, Len(opts[p].wire) - readBytes[p]) :
          /\ readBytes' = [readBytes EXCEPT ![p] = @ + n]
          /\ OnProgress(p, readBytes[p] + n, totalBytes[p])
          /\ dir' = WriteFile(dir, TempOf(p),
                              Written(opts[p].wire, readBytes[p] + n, opts[p].gunzip))
    /\ UNCHANGED << relVars, dest, pc, killed, opts, randomHex, res, totalBytes, err,
                    entries, startDir, fsLog, calls, seq >>

\* The body, the gunzip stage or the write stream fails: pipeline rejects.
StreamError(p) ==
    /\ pc[p] = "stream"
    /\ ~killed[p]
    /\ Throw(p, [kind |-> "stream", status |-> 0])
    /\ UNCHANGED << relVars, dest, dir, killed, opts, randomHex, res, entries,
                    startDir, fsLog, calls, seq >>

\* downloadFile returns and with it the withProgress task: its locals and
\* the progress notification are gone.
ReturnFromDownloadFile(p) ==
    /\ res' = [res EXCEPT ![p] = NoRes]
    /\ totalBytes' = [totalBytes EXCEPT ![p] = 0]
    /\ readBytes' = [readBytes EXCEPT ![p] = 0]
    /\ lastPercentage' = [lastPercentage EXCEPT ![p] = Finite(0)]
    /\ reports' = [reports EXCEPT ![p] = <<>>]
    /\ pc' = [pc EXCEPT ![p] = "displace"]

\* The body has ended and the pipeline resolves.  On node >= 13.11
\* downloadFile returns, on older versions it destroys the stream and waits
\* for "close".
StreamEnd(p) ==
    /\ pc[p] = "stream"
    /\ ~killed[p]
    /\ readBytes[p] = Len(opts[p].wire)
    /\ \E legacyNode \in BOOLEAN :
          IF legacyNode
          THEN /\ pc' = [pc EXCEPT ![p] = "close"]
               /\ UNCHANGED dlVars
          ELSE ReturnFromDownloadFile(p)
    /\ UNCHANGED << relVars, dest, dir, killed, opts, randomHex, err, entries,
                    startDir, fsLog, calls, seq >>

\* "close" of the destroyed write stream.
StreamClosed(p) ==
    /\ pc[p] = "close"
    /\ ~killed[p]
    /\ ReturnFromDownloadFile(p)
    /\ UNCHANGED << relVars, dest, dir, killed, opts, randomHex, err, entries,
                    startDir, fsLog, calls, seq >>

\* Step 3: rename(opts.dest, oldServerPath, overwrite).  It moves an existing
\* destination aside, finds none, or fails otherwise; download() goes on in
\* every case.
Displace(p) ==
    /\ pc[p] = "displace"
    /\ ~killed[p]
    /\ \/ /\ Exists(dir, DestOf)
          /\ dir' = Rename(dir, DestOf, OldOf(p))
          /\ Logged(p, "displace", "ok")
       \/ /\ ~Exists(dir, DestOf)
          /\ Logged(p, "displace", "notfound")
          /\ UNCHANGED dir
       \/ /\ Logged(p, "displace", "failed")
          /\ UNCHANGED dir
    /\ pc' = [pc EXCEPT ![p] = "install"]
    /\ UNCHANGED << relVars, dest, killed, opts, randomHex, dlVars, err, entries,
                    startDir, calls, seq >>

\* Mutant: step 4 without its try/catch, a failed rename rejects download().
Install_Uncaught(p) ==
    /\ pc[p] = "install"
    /\ ~killed[p]
    /\ \/ /\ Exists(dir, TempOf(p))
          /\ dir' = Rename(dir, TempOf(p), DestOf)
          /\ Logged(p, "install", "ok")
          /\ pc' = [pc EXCEPT ![p] = "list"]
          /\ UNCHANGED err
       \/ /\ Logged(p, "install", "failed")
          /\ pc' = [pc EXCEPT ![p] = "failed"]
          /\ err' = [err EXCEPT ![p] = [kind |-> "fs", status |-> 0]]
          /\ UNCHANGED dir
    /\ UNCHANGED << relVars, dest, killed, opts, randomHex, dlVars, entries,
                    startDir, calls, seq >>

\* Step 4: rename(tempFilePath, opts.dest, overwrite); a failure is logged.
Install(p) ==
    /\ pc[p] = "install"
    /\ ~killed[p]
    /\ \/ /\ Exists(dir, TempOf(p))
          /\ dir' = Rename(dir, TempOf(p), DestOf)
          /\ Logged(p, "install", "ok")
       \/ /\ Logged(p, "install", "failed")
          /\ UNCHANGED dir
    /\ pc' = [pc EXCEPT ![p] = "list"]
    /\ UNCHANGED << relVars, dest, killed, opts, randomHex, dlVars, err, entries,
                    startDir, calls, seq >>

\* Mutant: the cleanup pass looks for the whole file name, extension included.
StaleEntries_BaseName(names) == { e \in names : Includes(e, dest \o StaleMark) }

\* The entries of a listing the cleanup loop deletes.
StaleEntries(names) == { e \in names : IsStaleEntry(e, dest) }

\* Step 5: readDirectory(serverDir).  When it fails, download() returns; else
\* the loop runs up to the first delete it awaits, or to its end.
List(p) ==
    /\ pc[p] = "list"
    /\ ~killed[p]
    /\ \/ /\ entries' = [entries EXCEPT ![p] = StaleEntries(DOMAIN dir)]
          /\ pc' = [pc EXCEPT ![p] =
                      IF StaleEntries(DOMAIN dir) = {} THEN "done" ELSE "clean"]
          /\ Logged(p, "readDirectory", "ok")
       \/ /\ pc' = [pc EXCEPT ![p] = "done"]
          /\ Logged(p, "readDirectory", "failed")
          /\ UNCHANGED entries
    /\ UNCHANGED << relVars, dest, dir, killed, opts, randomHex, dlVars, err,
                    startDir, calls, seq >>

\* delete(uri) of the next stale entry of the listing, which removes it or
\* fails; the loop goes on to the next one either way.
DeleteEntry(p) ==
    /\ pc[p] = "clean"
    /\ ~killed[p]
    /\ \E e \in entries[p] :
          /\ \/ /\ Exists(dir, e)
                /\ dir' = Delete(dir, e)
                /\ Logged(p, "delete", "ok")
             \/ /\ Logged(p, "delete", "failed")
                /\ UNCHANGED dir
          /\ entries' = [entries EXCEPT ![p] = @ \ {e}]
          /\ pc' = [pc EXCEPT ![p] = IF entries[p] = {e} THEN "done" ELSE "clean"]
    /\ UNCHANGED << relVars, dest, killed, opts, randomHex, dlVars, err, startDir,
                    calls, seq >>

\* The extension host is terminated while download() is suspended: what the
\* call held in memory is gone, the directory stays as it is.
Kill(p) ==
    /\ Running(p)
    /\ killed' = [killed EXCEPT ![p] = TRUE]
    /\ res' = [res EXCEPT ![p] = NoRes]
    /\ totalBytes' = [totalBytes EXCEPT ![p] = 0]
    /\ readBytes' = [readBytes EXCEPT ![p] = 0]
    /\ lastPercentage' = [lastPercentage EXCEPT ![p] = Finite(0)]
    /\ reports' = [reports EXCEPT ![p] = <<>>]
    /\ entries' = [entries EXCEPT ![p] = {}]
    /\ UNCHANGED << relVars, dest, dir, pc, opts, randomHex, err,
                    startDir, fsLog, calls, seq >>

Next ==
    \/ FetchReleaseCall
    \/ FetchReleaseResponse
    \/ FetchReleaseBody
    \/ \E p \in Procs :
          \/ Download(p)
          \/ FetchDone(p)
          \/ ErrorBody(p)
          \/ Chunk(p)
          \/ StreamError(p)
          \/ StreamEnd(p)
          \/ StreamClosed(p)
          \/ Displace(p)
          \/ Install(p)
          \/ List(p)
          \/ DeleteEntry(p)
          \/ Kill(p)

Spec == Init /\ [][Next]_vars

\* ------------------------------------------------------ concurrent installs
\* download(opts) is called by a host that has no call of its own, whatever
\* the other host is doing: the calls of the two hosts overlap.
DownloadConcurrently(p) ==
    /\ pc[p] = "idle"
    /\ Call(p, Sources)

ConcInit == ReleaseFetched /\ InitInstaller

\* The steps of the two calls interleave freely; no host is terminated.
ConcNext ==
    \E p \in Procs :
       \/ DownloadConcurrently(p)
       \/ FetchDone(p)
       \/ ErrorBody(p)
       \/ Chunk(p)
       \/ StreamError(p)
       \/ StreamEnd(p)
       \/ StreamClosed(p)
       \/ Displace(p)
       \/ Install(p)
       \/ List(p)
       \/ DeleteEntry(p)

ConcSpec == ConcInit /\ [][ConcNext]_vars

\* ------------------------------------------------- one download, its progress
\* Bodies long enough for the percentages to matter: three and seven bytes
\* and a gzipped one.
ProgressSources == { [gunzip |-> FALSE, wire |-> <<1, 2, 3>>],
                     [gunzip |-> FALSE, wire |-> <<1, 2, 3, 4, 5, 6, 7>>],
                     [gunzip |-> TRUE, wire |-> <<2, 7, 1, 3>>] }

\* download(opts) is called once, for one of these artifacts.
DownloadAsset(p) ==
    /\ \A q \in Procs : pc[q] = "idle"
    /\ Turn(p)
    /\ Call(p, ProgressSources)

ProgressInit == ReleaseFetched /\ InitInstaller

\* The call up to the return of downloadFile.
ProgressNext ==
    \E p \in Procs :
       \/ DownloadAsset(p)
       \/ FetchDone(p)
       \/ ErrorBody(p)
       \/ Chunk(p)
       \/ StreamError(p)
       \/ StreamEnd(p)
       \/ StreamClosed(p)
       \/ Kill(p)

ProgressSpec == ProgressInit /\ [][ProgressNext]_vars

\* --------------------------------------------- the download of one payload
\* A payload whose every byte is half a percentage point, so that a data
\* event of at most MaxChunk bytes never spans more than one point.
ScenarioBody == [i \in 1..200 |-> 1]

\* downloadFile has received the 200 response that announces the payload with
\* its content-length, attached the data listener and opened the temp file.
ScenarioInit ==
    /\ ReleaseFetched
    /\ dest \in DestNames
    /\ \E d \in InitialDirs(dest), b \in RandomBytes(RandBytes) :
          /\ randomHex = [p \in Procs |-> IF p = 1 THEN ToHex(b) ELSE <<>>]
          /\ startDir = [p \in Procs |-> IF p = 1 THEN d ELSE EmptyDir]
          /\ dir = WriteFile(d, TempFilePath(dest, ToHex(b)), <<>>)
    /\ pc = [p \in Procs |-> IF p = 1 THEN "stream" ELSE "idle"]
    /\ killed = [p \in Procs |-> FALSE]
    /\ opts = [p \in Procs |->
                 IF p = 1 THEN [gunzip |-> FALSE, wire |-> ScenarioBody] ELSE NoOpts]
    /\ res = [p \in Procs |->
                IF p = 1
                THEN [status |-> 200,
                      contentLength |-> Header(Decimal(Len(ScenarioBody)))]
                ELSE NoRes]
    /\ totalBytes = [p \in Procs |-> IF p = 1 THEN Len(ScenarioBody) ELSE 0]
    /\ readBytes = [p \in Procs |-> 0]
    /\ lastPercentage = [p \in Procs |-> Finite(0)]
    /\ reports = [p \in Procs |-> <<>>]
    /\ err = [p \in Procs |-> NoErr]
    /\ entries = [p \in Procs |-> {}]
    /\ fsLog = [p \in Procs |-> {}]
    /\ calls = 1
    /\ seq = [p \in Procs |-> IF p = 1 THEN 1 ELSE 0]

\* The body is streamed to its end.
ScenarioNext ==
    \E p \in Procs :
       \/ Chunk(p)
       \/ StreamError(p)
       \/ StreamEnd(p)
       \/ StreamClosed(p)
       \/ Kill(p)

ScenarioSpec == ScenarioInit /\ [][ScenarioNext]_vars

\* ==================================================================== claims
\* The file at n as a sequence: empty when there is none, else its bytes.
FileAt(d, n) == IF n \in DOMAIN d THEN <<d[n]>> ELSE <<>>
Absent == <<>>

\* The binary the call of host p installs when it runs to its end.
NewBinary(p) == Artifact(opts[p].wire, opts[p].gunzip)

\* Every file a complete download or the first installation can have made.
CompleteBinaries == {OldBinary} \cup { Artifact(s.wire, s.gunzip) : s \in Sources }

\* Host p made the latest call; host q made the call right after p's.
Latest(p) == calls > 0 /\ seq[p] = calls
Follows(q, p) == seq[p] > 0 /\ seq[q] = seq[p] + 1

\* The call of host p was terminated while suspended at the given await.
KilledAt(p, at) == killed[p] /\ pc[p] = at

\* No filesystem call of host p has failed ("notfound" of step 3 is no failure).
NoFsFailure(p) == \A c \in fsLog[p] : c.result # "failed"

\* C1: at every point of an install, terminations and rename, delete and
\* listing failures included, the file at the destination is absent or a
\* complete binary: the one that was there when the call was made or the one
\* the call downloads.  Partial downloads are never at the destination.
C1_DestinationNeverPartial ==
    /\ FileAt(dir, dest) \in {Absent} \cup { <<b>> : b \in CompleteBinaries }
    /\ \A p \in Procs :
          Latest(p) =>
             FileAt(dir, dest) \in {Absent, FileAt(startDir[p], dest), <<NewBinary(p)>>}

\* A terminated download has left a partial temp file, the destination
\* still holds the old binary.
C1_Witness ==
    \E p \in Procs :
       /\ KilledAt(p, "stream")
       /\ Exists(dir, TempOf(p))
       /\ dir[TempOf(p)] # <<>>
       /\ dir[TempOf(p)] \notin CompleteBinaries
       /\ FileAt(dir, dest) = <<OldBinary>>

\* C2 (as claimed): when the step-4 rename fails, the destination holds the
\* pre-install binary once download() has returned, whatever step 3 did.
C2_OldBinaryStaysAfterFailedInstall ==
    \A p \in Procs :
       (Latest(p) /\ pc[p] = "done" /\ "failed" \in Results(p, "install"))
          => FileAt(dir, dest) = FileAt(startDir[p], dest)

\* C3 (as claimed): an install terminated between the two renames (step 3
\* has moved the old binary aside) leaves the destination absent, the old
\* binary at the displaced path and the new one still at the temp path; and
\* a following install that runs to its end without a filesystem failure
\* ends with the destination holding its complete new binary.
C3_TerminatedBetweenRenames ==
    /\ \A p \in Procs :
          (Latest(p) /\ KilledAt(p, "install") /\ Results(p, "displace") = {"ok"})
             => /\ FileAt(dir, dest) = Absent
                /\ FileAt(dir, OldOf(p)) = FileAt(startDir[p], dest)
                /\ FileAt(dir, OldOf(p)) # Absent
                /\ FileAt(dir, TempOf(p)) = <<NewBinary(p)>>
    /\ \A p, q \in Procs :
          ( /\ Follows(q, p)
            /\ KilledAt(p, "install") /\ Results(p, "displace") = {"ok"}
            /\ pc[q] = "done" /\ NoFsFailure(q) )
             => FileAt(dir, dest) = <<NewBinary(q)>>

\* C4: an install terminated after the temp file is complete and before
\* step 3 leaves the destination as it was when the call was made.
C4_TerminatedBeforeRenames ==
    \A p \in Procs :
       (Latest(p) /\ (KilledAt(p, "close") \/ KilledAt(p, "displace")))
          => /\ FileAt(dir, dest) = FileAt(startDir[p], dest)
             /\ FileAt(dir, TempOf(p)) = <<NewBinary(p)>>

\* Terminated with the download complete and the old binary in place.
C4_Witness ==
    \E p \in Procs :
       /\ Latest(p) /\ KilledAt(p, "displace")
       /\ FileAt(startDir[p], dest) = <<OldBinary>>
       /\ FileAt(dir, TempOf(p)) = <<NewBinary(p)>>

\* C5: when the download stage fails (transport, status, content-length
\* assertion, stream) download() rejects with that error and makes no
\* filesystem call: the destination and every other entry but the temp file
\* are as they were when the call was made.
C5_DownloadFailurePropagates ==
    \A p \in Procs :
       err[p].kind # "none" =>
          /\ pc[p] = "failed"
          /\ fsLog[p] = {}
          /\ Latest(p) =>
                \A n \in (DOMAIN dir \cup DOMAIN startDir[p]) \ {TempOf(p)} :
                   FileAt(dir, n) = FileAt(startDir[p], n)

\* The stream failed midway: partial bytes at the temp path, old binary in place.
C5_Witness ==
    \E p \in Procs :
       /\ pc[p] = "failed" /\ err[p].kind = "stream"
       /\ FileAt(dir, TempOf(p)) \notin {Absent, <<<<>>>>, <<NewBinary(p)>>}
       /\ FileAt(dir, dest) = <<OldBinary>>

\* C6: once the download is complete nothing makes download() throw: step 4
\* is attempted whatever step 3 did, the listing is attempted whatever step 4
\* did, and a call that is not terminated can always take its next step.
C6_SwapFailuresNotFatal ==
    \A p \in Procs :
       /\ fsLog[p] # {} => pc[p] # "failed"
       /\ pc[p] \in {"displace", "install", "list", "clean", "done"} =>
             /\ err[p] = NoErr
             /\ pc[p] \in {"list", "clean", "done"} => Results(p, "install") # {}
             /\ pc[p] \in {"clean", "done"} => Results(p, "readDirectory") # {}
             /\ Running(p) =>
                   ENABLED (Displace(p) \/ Install(p) \/ List(p) \/ DeleteEntry(p))

\* download() has returned although both renames and a deletion failed.
C6_Witness ==
    \E p \in Procs :
       /\ pc[p] = "done"
       /\ "failed" \in Results(p, "displace")
       /\ "failed" \in Results(p, "install")
       /\ "failed" \in Results(p, "delete")

\* A content-length header that is a non-negative integer.
ValidLength(h) == h.present /\ AllDigits(h.value)

\* C7 (as claimed): a successful response whose content-length header is
\* absent or no non-negative integer makes downloadFile fail, and the temp
\* file is not created.
C7_MissingContentLengthFails ==
    \A p \in Procs :
       (res[p].status \in 200..299 /\ ~ValidLength(res[p].contentLength))
          => /\ pc[p] = "failed"
             /\ Latest(p) => dir = startDir[p]

\* C8 (as claimed): a response outside 200..299 makes fetchRelease and
\* downloadFile throw an error that carries the status received; no file is
\* created or modified and download() makes no filesystem call.
C8_StatusErrorCarriesStatus ==
    /\ (relPc = "failed" /\ relRes # 0 /\ relRes \notin 200..299)
          => /\ relErr = [kind |-> "status", status |-> relRes]
             /\ dir \in InitialDirs(dest)
    /\ \A p \in Procs :
          (pc[p] = "failed" /\ res[p].status # 0 /\ res[p].status \notin 200..299)
             => /\ err[p] = [kind |-> "status", status |-> res[p].status]
                /\ fsLog[p] = {}
                /\ Latest(p) => dir = startDir[p]

\* Entry n is named like a displaced artifact of the destination:
\* name, "-stale-", 2 * RandBytes hex digits, extension.
IsHexDigit(c) == \E i \in 1..16 : HexDigits[i] = c
IsDisplacedName(n) ==
    LET pre == ParseName(dest) \o StaleMark
        ext == ParseExt(dest) IN
    /\ Len(n) = Len(pre) + 2 * RandBytes + Len(ext)
    /\ SubSeq(n, 1, Len(pre)) = pre
    /\ \A i \in (Len(pre) + 1)..(Len(pre) + 2 * RandBytes) : IsHexDigit(n[i])
    /\ SubSeq(n, Len(pre) + 2 * RandBytes + 1, Len(n)) = ext

Displaced(d) == { n \in DOMAIN d : IsDisplacedName(n) }

\* The call of host p returned and none of its filesystem calls failed.
CleanRun(p) == pc[p] = "done" /\ NoFsFailure(p)

\* C9 (as claimed): an install that returns without a filesystem failure
\* leaves the downloaded artifact at the destination; after two such
\* installs of the same source in succession it is still there and no
\* displaced artifact other than the second install's own is in the
\* directory.
C9_Idempotent ==
    /\ \A p \in Procs :
          (Latest(p) /\ CleanRun(p)) => FileAt(dir, dest) = <<NewBinary(p)>>
    /\ \A p, q \in Procs :
          (Follows(q, p) /\ CleanRun(p) /\ CleanRun(q) /\ opts[p] = opts[q])
             => /\ FileAt(dir, dest) = <<NewBinary(q)>>
                /\ Displaced(dir) \subseteq {OldOf(q)}

\* C10: when the cleanup pass of an install lists the directory and every
\* deletion succeeds, no entry named like a displaced artifact of the
\* destination is left, however many earlier installs left behind.
C10_CleanupRemovesAllDisplaced ==
    \A p \in Procs :
       ( /\ Latest(p) /\ pc[p] = "done"
         /\ Results(p, "readDirectory") = {"ok"}
         /\ "failed" \notin Results(p, "delete") )
          => Displaced(dir) = {}

\* The cleanup succeeded in a directory that held two displaced artifacts:
\* the one an earlier install left behind when its listing failed and the
\* one of this install.
C10_Witness ==
    \E p, q \in Procs :
       /\ Follows(q, p)
       /\ pc[p] = "done" /\ Results(p, "readDirectory") = {"failed"}
       /\ Displaced(startDir[q]) = {OldOf(p)}
       /\ randomHex[q] # randomHex[p]
       /\ pc[q] = "done"
       /\ Results(q, "displace") = {"ok"}
       /\ Results(q, "readDirectory") = {"ok"}
       /\ Results(q, "delete") = {"ok"}

\* ------------------------------------------------------- claims on progress
\* Order of percentages: Infinity is above every number.
Below(a, b) == ~a.inf /\ (b.inf \/ a.val < b.val)

\* The percentages host p has reported so far, in order.
Percentages(p) == [i \in 1..Len(reports[p]) |-> reports[p][i].message]

\* C11 (as claimed): within one download the percentages reported never
\* decrease and none is reported twice: each is above the one before it.
C11_ProgressMonotonic ==
    \A p \in Procs :
       \A i, j \in 1..Len(reports[p]) :
          i < j => Below(Percentages(p)[i], Percentages(p)[j])

\* The body of host p has been read to its end and the pipeline is about to
\* resolve, or downloadFile waits for "close" after it.
Completed(p) ==
    \/ pc[p] = "stream" /\ ~killed[p] /\ readBytes[p] = Len(opts[p].wire)
    \/ pc[p] = "close" /\ ~killed[p]

\* C12 (as claimed): the download of the payload, delivered in data events
\* of at most a percentage point each, has reported every integer percentage
\* from 0 through 100 exactly once when it completes: 101 reports.
C12_EveryPercentagePoint ==
    \A p \in Procs :
       (Completed(p) /\ opts[p].wire = ScenarioBody)
          => Percentages(p) = [i \in 1..101 |-> Finite(i - 1)]

\* C13 (as claimed): after every progress update (readBytes, totalBytes)
\* with 0 <= readBytes <= totalBytes and totalBytes > 0, the percentage the
\* callback computed is floor(readBytes / totalBytes * 100).
C13_PercentageIsFloor ==
    \A p \in Procs :
       ( /\ pc[p] \in {"stream", "close"} /\ ~killed[p]
         /\ totalBytes[p] > 0
         /\ 0 <= readBytes[p] /\ readBytes[p] <= totalBytes[p] )
          => lastPercentage[p] = Finite((100 * readBytes[p]) \div totalBytes[p])

\* C14 (as claimed): whenever the pipeline of a download resolves, the bytes
\* counted by the data listener equal totalBytes, the number read from the
\* content-length header: the last progress update was (totalBytes,
\* totalBytes).
C14_ReadBytesReachTotal ==
    [][\A p \in Procs :
          (pc[p] = "stream" /\ pc'[p] \in {"close", "displace"})
             => readBytes[p] = totalBytes[p]]_vars

\* The sum of the increments of the first k reports of host p.
RECURSIVE SumOfIncrements(_, _)
SumOfIncrements(p, k) ==
    IF k = 0 THEN Finite(0)
    ELSE LET before == SumOfIncrements(p, k - 1)
             inc == reports[p][k].increment
         IN  IF before.inf \/ inc.inf THEN Infinity ELSE Finite(before.val + inc.val)

\* C17: at every point of a download the increments reported so far add up
\* to the percentage of the latest report, and to 0 before the first report;
\* the same holds at each earlier report.
C17_DeltasSumToPercentage ==
    \A p \in Procs :
       /\ SumOfIncrements(p, Len(reports[p])) = lastPercentage[p]
       /\ \A k \in 1..Len(reports[p]) :
             SumOfIncrements(p, k) = Percentages(p)[k]

\* A body of three bytes has arrived byte by byte: 33, 67 and 100 were
\* reported with the increments 33, 34 and 33.
C17_Witness ==
    \E p \in Procs :
       /\ Completed(p)
       /\ Percentages(p) = <<Finite(33), Finite(67), Finite(100)>>
       /\ reports[p][2].increment = Finite(34)

\* ---------------------------------------------- claims on the cleanup pass
\* Entry n is named like a temp artifact of the destination: name, then
\* 2 * RandBytes hex digits.
IsTempName(n) ==
    LET pre == ParseName(dest) IN
    /\ Len(n) = Len(pre) + 2 * RandBytes
    /\ SubSeq(n, 1, Len(pre)) = pre
    /\ \A i \in (Len(pre) + 1)..Len(n) : IsHexDigit(n[i])

\* The entries a step removes from the directory.
Removed == DOMAIN dir \ DOMAIN dir'

\* Host p takes a step of its cleanup loop; its listing has just succeeded.
CleanupStep(p) == pc[p] = "clean" /\ entries'[p] # entries[p] /\ ~killed'[p]
Listed(p) ==
    /\ pc[p] = "list" /\ pc'[p] \in {"clean", "done"}
    /\ [call |-> "readDirectory", result |-> "ok"] \in fsLog'[p]

\* C16 (as claimed): the entries the cleanup pass attempts to delete are
\* exactly the entries of the listing named like a displaced artifact of the
\* destination (name, "-stale-", token, extension); each attempt, failed or
\* not, is followed by the next one; and no other entry is deleted.
C16_CleanupMatchesPattern ==
    [][\A p \in Procs :
          /\ Listed(p) => entries'[p] = Displaced(dir)
          /\ CleanupStep(p) =>
                /\ \E e \in entries[p] : entries'[p] = entries[p] \ {e}
                /\ entries'[p] # {} => pc'[p] = "clean"
                /\ \A n \in Removed : IsDisplacedName(n)]_vars

\* C18 (as claimed): a step of the cleanup pass removes neither the file at
\* the destination nor a temp artifact, only entries whose name contains
\* the name of the destination followed by "-stale-"; the binary step 4
\* installed is still there when the cleanup is over.
C18_CleanupSparesDestination ==
    [][\A p \in Procs :
          CleanupStep(p) =>
             /\ \A n \in Removed :
                   /\ n # dest
                   /\ ~IsTempName(n)
                   /\ Includes(n, ParseName(dest) \o StaleMark)
             /\ FileAt(dir', dest) = FileAt(dir, dest)]_vars

\* The temp artifacts of the destination in directory d.
Temps(d) == { n \in DOMAIN d : IsTempName(n) }

\* The call of host p has opened its temp file.
TempWritten(p) ==
    \/ pc[p] \in {"stream", "close", "displace", "install", "list", "clean", "done"}
    \/ pc[p] = "failed" /\ err[p].kind = "stream"

\* C19: while an install is the latest one, the entries that were not there
\* when it was called are its own temp path, its own displaced path and the
\* destination, so one temp and one displaced artifact at most; every temp
\* artifact that was there, left by an earlier install under another token,
\* is still there unchanged; and its own temp artifact, once written, is
\* there until its own step-4 rename succeeds, whether the install goes on,
\* fails, is terminated or returns.
C19_TempArtifacts ==
    \A p \in Procs :
       Latest(p) =>
          /\ DOMAIN dir \ DOMAIN startDir[p] \subseteq {TempOf(p), OldOf(p), dest}
          /\ \A n \in DOMAIN startDir[p] \ {TempOf(p)} :
                FileAt(dir, n) # FileAt(startDir[p], n) => ~IsTempName(n)
          /\ (TempWritten(p) /\ "ok" \notin Results(p, "install"))
                => Exists(dir, TempOf(p))

\* Two installs, neither of which completed step 4, have left two temp
\* artifacts: the first was terminated while streaming, the second returned
\* after its step-4 rename failed and its cleanup succeeded.
C19_Witness ==
    \E p, q \in Procs :
       /\ Follows(q, p)
       /\ KilledAt(p, "stream")
       /\ pc[q] = "done"
       /\ Results(q, "install") = {"failed"}
       /\ Results(q, "readDirectory") = {"ok"}
       /\ "failed" \notin Results(q, "delete")
       /\ TempOf(p) # TempOf(q)
       /\ Temps(dir) = {TempOf(p), TempOf(q)}

\* ------------------------------------------- claims on concurrent installs
\* The two calls drew different tokens.
IndependentTokens == \A p, q \in Procs : p # q => randomHex[p] # randomHex[q]

\* Host p has just completed its step-4 rename.
Installed(p) ==
    /\ pc[p] = "install" /\ pc'[p] = "list"
    /\ [call |-> "install", result |-> "ok"] \in fsLog'[p]

\* Host p is past step 4 and none of its filesystem calls has failed.
PastInstall(p) == pc[p] \in {"list", "clean", "done"} /\ NoFsFailure(p)

\* C15 (as claimed): with two installs of the same destination running
\* concurrently under different tokens, the destination is never partially
\* written; a step-4 rename leaves its install's complete binary there, and
\* once both installs are past step 4 without a filesystem failure nothing
\* changes the destination any more, so that it holds the binary of the last
\* step-4 rename when both have returned; and no cleanup step removes the
\* temp artifact of either install.
C15_ConcurrentInstalls ==
    /\ [](IndependentTokens =>
             FileAt(dir, dest) \in {Absent} \cup { <<b>> : b \in CompleteBinaries })
    /\ [][IndependentTokens =>
             /\ \A p \in Procs :
                   Installed(p) => FileAt(dir', dest) = <<NewBinary(p)>>
             /\ (\A p \in Procs : PastInstall(p))
                   => FileAt(dir', dest) = FileAt(dir, dest)
             /\ \A p, q \in Procs :
                   CleanupStep(p) => TempOf(q) \notin Removed]_vars

====
